---------------------------- MODULE Spec2Model ----------------------------
(***************************************************************************)
(* A model of the geometric registration code of 2dto3dreconstruction:     *)
(*   src/utils/utils.py          the library functions                     *)
(*   src/karl-homo-toy-cars.py   its own copies of them and the script     *)
(*                               that registers a sequence of frames       *)
(*                                                                         *)
(* A point cloud (an n x 3 ndarray) is a sequence of points <<x, y, z>>, a *)
(* depth image a sequence of rows, a 4x4 matrix a sequence of four rows.   *)
(* Python indices are 0-based, the sequences here 1-based.                 *)
(***************************************************************************)
EXTENDS Integers, Sequences, FiniteSets, TLC

VARIABLES
    \* a single call of a library function: its name, its arguments as they
    \* are after the call, and what it returned or raised
    call, args, ret,
    \* the script karl-homo-toy-cars.py: its position and its globals
    pc, i, outputs, input_voxels, orginal_points, keypoints_prime, bf_matches,
    kps1_3d, kps2_3d, m_kps1_3d, m_kps2_3d, h_matrixes, new_3d_pts, pcds, error

callVars == <<call, args, ret>>
scriptVars == <<pc, i, outputs, input_voxels, orginal_points, keypoints_prime,
                bf_matches, kps1_3d, kps2_3d, m_kps1_3d, m_kps2_3d, h_matrixes,
                new_3d_pts, pcds, error>>
vars == <<call, args, ret, pc, i, outputs, input_voxels, orginal_points,
          keypoints_prime, bf_matches, kps1_3d, kps2_3d, m_kps1_3d, m_kps2_3d,
          h_matrixes, new_3d_pts, pcds, error>>

(***************************************************************************)
(* Bounds of the model.                                                    *)
(***************************************************************************)
\* depth images of the converter's own specification are ImgRows x ImgCols
ImgRows == 2
ImgCols == 2
\* longest cloud and longest request list handed to a library function
MaxCloud == 2
MaxKps == 2
\* frames of the sequence (the script hard-codes 15)
NFrames == 3

\* sample values: depths (0 is "missing"), scales, pixel coordinates, z values
DepthVals == {0, 5, 128}
Scales == {0, 1, 2, 256}
Coords == {0, 1}
ZVals == {5, 7}

SeqsUpTo(S, n) == UNION {[1..k -> S] : k \in 0..n}

(***************************************************************************)
(* Numbers.  A value of a float array is kept as a fraction <<n, d>> in    *)
(* lowest terms with d > 0; a division by zero gives what IEEE gives:      *)
(* <<1, 0>> (inf), <<-1, 0>> (-inf) or <<0, 0>> (nan).                     *)
(***************************************************************************)
Abs(n) == IF n < 0 THEN -n ELSE n

Sign(n) == IF n < 0 THEN -1 ELSE IF n > 0 THEN 1 ELSE 0

RECURSIVE Gcd(_, _)
Gcd(a, b) == IF b = 0 THEN a ELSE Gcd(b, a % b)

\* numerator / denominator, both integers, as the float division computes it
Frac(n, d) ==
    IF d = 0 THEN <<Sign(n), 0>>
    ELSE LET g == Gcd(Abs(n), Abs(d))
         IN  <<(Sign(d) * n) \div g, Abs(d) \div g>>

\* an integer stored into a float array
Float(n) == <<n, 1>>

\* astype(np.int16), and int16 arithmetic: the value modulo 2^16
Int16(n) == ((n + 32768) % 65536) - 32768

\* a returned value, a raised exception
Returned(v) == [value |-> v, raised |-> "none"]
Raised(e) == [value |-> <<>>, raised |-> e]
NoReturn == [value |-> <<>>, raised |-> "not called"]

(***************************************************************************)
(* depth_to_voxel: meshgrid, stack with the int16 depth times the scale,   *)
(* reshape to (rows*cols, 3) in row-major order, drop the rows with z = 0. *)
(* The scale is a Python int that fits int16, so the product stays int16.  *)
(***************************************************************************)
utils_depth_to_voxel(img, scale) ==
    LET h == Len(img)
        w == Len(img[1])
        pixels == [k \in 1..(h * w) |->
                     LET y == (k - 1) \div w
                         x == (k - 1) % w
                     IN  <<x, y, Int16(Int16(img[y + 1][x + 1]) * scale)>>]
    IN  SelectSeq(pixels, LAMBDA p : p[3] # 0)

karl_depth_to_voxel(img, scale) ==
    LET h == Len(img)
        w == Len(img[1])
        pixels == [k \in 1..(h * w) |->
                     LET y == (k - 1) \div w
                         x == (k - 1) % w
                     IN  <<x, y, Int16(Int16(img[y + 1][x + 1]) * scale)>>]
    IN  SelectSeq(pixels, LAMBDA p : p[3] # 0)

(***************************************************************************)
(* The script's globals while only a library function is called.           *)
(***************************************************************************)
ScriptIdle ==
    /\ pc = "idle" /\ i = 0 /\ outputs = <<>> /\ input_voxels = <<>>
    /\ orginal_points = <<>> /\ keypoints_prime = <<>> /\ bf_matches = <<>>
    /\ kps1_3d = <<>> /\ kps2_3d = <<>> /\ m_kps1_3d = <<>> /\ m_kps2_3d = <<>>
    /\ h_matrixes = <<>> /\ new_3d_pts = <<>> /\ pcds = <<>> /\ error = "none"

(***************************************************************************)
(* The converter called on a depth image with a scale.                     *)
(***************************************************************************)
Images == [1..ImgRows -> [1..ImgCols -> DepthVals]]

InitVoxel ==
    /\ call = "none"
    /\ args \in [img : Images, scale : Scales]
    /\ ret = NoReturn
    /\ ScriptIdle

CallUtilsDepthToVoxel ==
    /\ call = "none"
    /\ call' = "utils.depth_to_voxel"
    /\ ret' = Returned(utils_depth_to_voxel(args.img, args.scale))
    /\ UNCHANGED <<args, scriptVars>>

CallKarlDepthToVoxel ==
    /\ call = "none"
    /\ call' = "karl.depth_to_voxel"
    /\ ret' = Returned(karl_depth_to_voxel(args.img, args.scale))
    /\ UNCHANGED <<args, scriptVars>>

NextVoxel == CallUtilsDepthToVoxel \/ CallKarlDepthToVoxel

SpecVoxel == InitVoxel /\ [][NextVoxel]_vars

(***************************************************************************)
(* C1: depth_to_voxel returns, in row-major scan order, exactly the points *)
(* (x, y, depth[y][x] * scale) of the pixels with depth[y][x] # 0.         *)
(***************************************************************************)
ScanPoints(img, scale) ==
    LET w == Len(img[1])
        all == [k \in 1..(Len(img) * w) |->
                  <<(k - 1) % w, (k - 1) \div w,
                    img[((k - 1) \div w) + 1][((k - 1) % w) + 1]>>]
        kept == SelectSeq(all, LAMBDA p : p[3] # 0)
    IN  [k \in 1..Len(kept) |-> <<kept[k][1], kept[k][2], kept[k][3] * scale>>]

C1_DepthToVoxelExact ==
    call \in {"utils.depth_to_voxel", "karl.depth_to_voxel"}
        => ret = Returned(ScanPoints(args.img, args.scale))

(***************************************************************************)
(* get_3d_kps: for every requested keypoint in turn, scan the cloud and    *)
(* append the first point that matches it, then break.  utils.py compares  *)
(* i[0] with v[0] and i[1] with v[1]; karl-homo-toy-cars.py compares i[1]  *)
(* with v[0] and i[0] with v[1].                                           *)
(***************************************************************************)
\* (the comparison with the axes exchanged)
RECURSIVE utils_scan_swapped(_, _, _)
utils_scan_swapped(kp, voxels, k) ==
    IF k > Len(voxels) THEN <<>>
    ELSE IF kp[2] = voxels[k][1] /\ kp[1] = voxels[k][2] THEN <<voxels[k]>>
    ELSE utils_scan_swapped(kp, voxels, k + 1)

RECURSIVE utils_scan(_, _, _)
utils_scan(kp, voxels, k) ==
    IF k > Len(voxels) THEN <<>>
    ELSE IF kp[1] = voxels[k][1] /\ kp[2] = voxels[k][2] THEN <<voxels[k]>>
    ELSE utils_scan(kp, voxels, k + 1)

RECURSIVE utils_get_3d_kps(_, _)
utils_get_3d_kps(voxels, kps) ==
    IF kps = <<>> THEN <<>>
    ELSE utils_scan(Head(kps), voxels, 1) \o utils_get_3d_kps(voxels, Tail(kps))

RECURSIVE karl_scan(_, _, _)
karl_scan(kp, voxels, k) ==
    IF k > Len(voxels) THEN <<>>
    ELSE IF kp[2] = voxels[k][1] /\ kp[1] = voxels[k][2] THEN <<voxels[k]>>
    ELSE karl_scan(kp, voxels, k + 1)

RECURSIVE karl_get_3d_kps(_, _)
karl_get_3d_kps(voxels, kps) ==
    IF kps = <<>> THEN <<>>
    ELSE karl_scan(Head(kps), voxels, 1) \o karl_get_3d_kps(voxels, Tail(kps))

(***************************************************************************)
(* find_closest_3d_match: the squared differences of the (x, y) columns    *)
(* to the query are summed with axis=0, that is over the points, which     *)
(* leaves two sums, one per column; argmin of the two (the first on a tie) *)
(* is used as the row to return.  The two files hold the same code.        *)
(***************************************************************************)
RECURSIVE ColumnSumSq(_, _, _)
ColumnSumSq(matrix_3d, col, q) ==
    IF matrix_3d = <<>> THEN 0
    ELSE (Head(matrix_3d)[col] - q) * (Head(matrix_3d)[col] - q)
             + ColumnSumSq(Tail(matrix_3d), col, q)

utils_find_closest_3d_match(x0, y0, matrix_3d) ==
    IF matrix_3d = <<>> THEN Raised("ValueError")  \* (0,2) - (0,) does not broadcast
    ELSE LET sums == <<ColumnSumSq(matrix_3d, 1, x0), ColumnSumSq(matrix_3d, 2, y0)>>
             index == IF sums[1] <= sums[2] THEN 0 ELSE 1
         IN  IF index >= Len(matrix_3d) THEN Raised("IndexError")
             ELSE Returned(matrix_3d[index + 1])

karl_find_closest_3d_match(x0, y0, matrix_3d) ==
    IF matrix_3d = <<>> THEN Raised("ValueError")
    ELSE LET sums == <<ColumnSumSq(matrix_3d, 1, x0), ColumnSumSq(matrix_3d, 2, y0)>>
             index == IF sums[1] <= sums[2] THEN 0 ELSE 1
         IN  IF index >= Len(matrix_3d) THEN Raised("IndexError")
             ELSE Returned(matrix_3d[index + 1])

(***************************************************************************)
(* The resolvers called on a cloud and a list of requested coordinates.    *)
(***************************************************************************)
CloudPoints == Coords \X Coords \X ZVals
Clouds == SeqsUpTo(CloudPoints, MaxCloud)
Requests == SeqsUpTo(Coords \X Coords, MaxKps)

InitResolve ==
    /\ call = "none"
    /\ args \in [voxels : Clouds, kps : Requests]
    /\ ret = NoReturn
    /\ ScriptIdle

CallUtilsGet3dKps ==
    /\ call = "none"
    /\ call' = "utils.get_3d_kps"
    /\ ret' = Returned(utils_get_3d_kps(args.voxels, args.kps))
    /\ UNCHANGED <<args, scriptVars>>

CallKarlGet3dKps ==
    /\ call = "none"
    /\ call' = "karl.get_3d_kps"
    /\ ret' = Returned(karl_get_3d_kps(args.voxels, args.kps))
    /\ UNCHANGED <<args, scriptVars>>

NextResolve == CallUtilsGet3dKps \/ CallKarlGet3dKps

SpecResolve == InitResolve /\ [][NextResolve]_vars

(***************************************************************************)
(* C2: utils.get_3d_kps returns, in request order, for each request the    *)
(* first cloud point with the requested (x, y), and nothing for a request  *)
(* no cloud point has; so the result is never longer than the request list *)
(* and is strictly shorter when some requested coordinate is absent.       *)
(***************************************************************************)
HasXY(p, r) == p[1] = r[1] /\ p[2] = r[2]

Present(voxels, r) == \E k \in 1..Len(voxels) : HasXY(voxels[k], r)

FirstWithXY(voxels, r) ==
    voxels[CHOOSE k \in 1..Len(voxels) :
               /\ HasXY(voxels[k], r)
               /\ \A j \in 1..(k - 1) : ~HasXY(voxels[j], r)]

FirstHits(voxels, kps) ==
    LET found == SelectSeq(kps, LAMBDA r : Present(voxels, r))
    IN  [k \in 1..Len(found) |-> FirstWithXY(voxels, found[k])]

C2_ExactLookup ==
    call = "utils.get_3d_kps" =>
        /\ ret = Returned(FirstHits(args.voxels, args.kps))
        /\ Len(ret.value) <= Len(args.kps)
        /\ (\E k \in 1..Len(args.kps) : ~Present(args.voxels, args.kps[k]))
               => Len(ret.value) < Len(args.kps)

\* a request that is dropped, then one that two different cloud points match
C2_Witness ==
    /\ call = "utils.get_3d_kps"
    /\ Len(args.kps) = 2
    /\ Len(args.voxels) = 2
    /\ Len(ret.value) = 1
    /\ ~Present(args.voxels, args.kps[1])
    /\ HasXY(args.voxels[1], args.kps[2])
    /\ HasXY(args.voxels[2], args.kps[2])
    /\ args.voxels[1] # args.voxels[2]

(***************************************************************************)
(* C10: the two get_3d_kps resolvers use the same axis convention: on the  *)
(* same cloud and requests they return the same list.  The model holds one *)
(* call per behaviour, so the call made is compared with what the other    *)
(* file's function gives on the same arguments.                            *)
(***************************************************************************)
C10_SameConvention ==
    /\ call = "utils.get_3d_kps" => ret = Returned(karl_get_3d_kps(args.voxels, args.kps))
    /\ call = "karl.get_3d_kps" => ret = Returned(utils_get_3d_kps(args.voxels, args.kps))

(***************************************************************************)
(* The nearest-match fallback called on a query and a cloud.               *)
(***************************************************************************)
InitClosest ==
    /\ call = "none"
    /\ args \in [x0 : Coords, y0 : Coords, matrix_3d : SeqsUpTo(CloudPoints, MaxCloud + 1)]
    /\ ret = NoReturn
    /\ ScriptIdle

CallUtilsFindClosest ==
    /\ call = "none"
    /\ call' = "utils.find_closest_3d_match"
    /\ ret' = utils_find_closest_3d_match(args.x0, args.y0, args.matrix_3d)
    /\ UNCHANGED <<args, scriptVars>>

CallKarlFindClosest ==
    /\ call = "none"
    /\ call' = "karl.find_closest_3d_match"
    /\ ret' = karl_find_closest_3d_match(args.x0, args.y0, args.matrix_3d)
    /\ UNCHANGED <<args, scriptVars>>

NextClosest == CallUtilsFindClosest \/ CallKarlFindClosest

SpecClosest == InitClosest /\ [][NextClosest]_vars

(***************************************************************************)
(* C3: on a non-empty cloud find_closest_3d_match returns the point whose  *)
(* (x, y) has the least squared distance to the query, the first such      *)
(* point in cloud order when several have it.                              *)
(***************************************************************************)
Dist2(p, x0, y0) == (p[1] - x0) * (p[1] - x0) + (p[2] - y0) * (p[2] - y0)

Nearest(x0, y0, cloud) ==
    cloud[CHOOSE k \in 1..Len(cloud) :
              /\ \A j \in 1..Len(cloud) : Dist2(cloud[k], x0, y0) <= Dist2(cloud[j], x0, y0)
              /\ \A j \in 1..(k - 1) : Dist2(cloud[j], x0, y0) > Dist2(cloud[k], x0, y0)]

C3_NearestFirst ==
    (/\ call \in {"utils.find_closest_3d_match", "karl.find_closest_3d_match"}
     /\ args.matrix_3d # <<>>)
        => ret = Returned(Nearest(args.x0, args.y0, args.matrix_3d))

(***************************************************************************)
(* get_transformed_points: every point is made homogeneous with its first  *)
(* two components exchanged, [k[1], k[0], k[2], 1], multiplied by the      *)
(* matrix, and stored with the first two components exchanged again.  The  *)
(* copy in karl-homo-toy-cars.py divides the first three components by the *)
(* fourth before storing; the one in utils.py does not.  The result is a   *)
(* new float array (np.zeros); the operators give it together with the     *)
(* keypoints array as the function leaves it.                              *)
(***************************************************************************)
Dot4(row, v) == row[1] * v[1] + row[2] * v[2] + row[3] * v[3] + row[4] * v[4]

\* np.dot(H_matrix, np.transpose(keypoint_3dim)) for a 1 x 4 keypoint_3dim
MatVec(H_matrix, v) == [r \in 1..4 |-> Dot4(H_matrix[r], v)]

\* (the transformed point stored without exchanging its components back)
karl_transformed_point_stored_as_is(keypoint, H_matrix) ==
    LET keypoint_3dim == <<keypoint[2], keypoint[1], keypoint[3], 1>>
        transformed_point_3dim == MatVec(H_matrix, keypoint_3dim)
    IN  [c \in 1..3 |-> Frac(transformed_point_3dim[c], transformed_point_3dim[4])]

karl_transformed_point(keypoint, H_matrix) ==
    LET keypoint_3dim == <<keypoint[2], keypoint[1], keypoint[3], 1>>
        transformed_point_3dim == MatVec(H_matrix, keypoint_3dim)
        new_value == [c \in 1..3 |-> Frac(transformed_point_3dim[c],
                                          transformed_point_3dim[4])]
    IN  <<new_value[2], new_value[1], new_value[3]>>

karl_get_transformed_points(keypoints, H_matrix) ==
    [transformed_points |->
         [k \in 1..Len(keypoints) |-> karl_transformed_point(keypoints[k], H_matrix)],
     keypoints |-> keypoints]

utils_transformed_point(keypoint, H_matrix) ==
    LET keypoint_3dim == <<keypoint[2], keypoint[1], keypoint[3], 1>>
        new_value == MatVec(H_matrix, keypoint_3dim)
    IN  <<Float(new_value[2]), Float(new_value[1]), Float(new_value[3])>>

utils_get_transformed_points(keypoints, H_matrix) ==
    [transformed_points |->
         [k \in 1..Len(keypoints) |-> utils_transformed_point(keypoints[k], H_matrix)],
     keypoints |-> keypoints]

(***************************************************************************)
(* The applicator called on a cloud and a 4x4 matrix: a rotation (none, or *)
(* a quarter turn about z), a translation and a bottom row.                *)
(***************************************************************************)
Identity3 == <<<<1, 0, 0>>, <<0, 1, 0>>, <<0, 0, 1>>>>
QuarterTurnZ == <<<<0, -1, 0>>, <<1, 0, 0>>, <<0, 0, 1>>>>

Matrix4(R, t, bottom) ==
    <<R[1] \o <<t[1]>>, R[2] \o <<t[2]>>, R[3] \o <<t[3]>>, bottom>>

Identity4 == Matrix4(Identity3, <<0, 0, 0>>, <<0, 0, 0, 1>>)

Translation(t) == Matrix4(Identity3, t, <<0, 0, 0, 1>>)

Translations == {<<0, 0, 0>>, <<1, 0, 0>>, <<0, 1, 0>>, <<0, 0, 1>>}
BottomRows == {<<0, 0, 0, 1>>, <<0, 0, 0, 2>>, <<1, 0, 0, 0>>, <<0, 0, 0, -1>>}

Matrices == {Matrix4(R, t, b) : R \in {Identity3, QuarterTurnZ},
                                t \in Translations, b \in BottomRows}

InitTransform ==
    /\ call = "none"
    /\ args \in [keypoints : Clouds, H_matrix : Matrices]
    /\ ret = NoReturn
    /\ ScriptIdle

CallKarlGetTransformedPoints ==
    /\ call = "none"
    /\ call' = "karl.get_transformed_points"
    /\ LET r == karl_get_transformed_points(args.keypoints, args.H_matrix)
       IN  /\ ret' = Returned(r.transformed_points)
           /\ args' = [args EXCEPT !.keypoints = r.keypoints]
    /\ UNCHANGED scriptVars

CallUtilsGetTransformedPoints ==
    /\ call = "none"
    /\ call' = "utils.get_transformed_points"
    /\ LET r == utils_get_transformed_points(args.keypoints, args.H_matrix)
       IN  /\ ret' = Returned(r.transformed_points)
           /\ args' = [args EXCEPT !.keypoints = r.keypoints]
    /\ UNCHANGED scriptVars

NextTransform == CallKarlGetTransformedPoints \/ CallUtilsGetTransformedPoints

SpecTransform == InitTransform /\ [][NextTransform]_vars

(***************************************************************************)
(* C4: get_transformed_points returns a cloud of the same length whose     *)
(* point k is the first three components of M.(x, y, z, 1) for input point *)
(* k = (x, y, z), divided by the fourth component in the normalizing       *)
(* variant and used as they are in the other.                              *)
(***************************************************************************)
Homogeneous(M, p) == MatVec(M, <<p[1], p[2], p[3], 1>>)

Projected(M, p) ==
    LET h == Homogeneous(M, p) IN <<Frac(h[1], h[4]), Frac(h[2], h[4]), Frac(h[3], h[4])>>

Direct(M, p) ==
    LET h == Homogeneous(M, p) IN <<Float(h[1]), Float(h[2]), Float(h[3])>>

C4_TransformPointwise ==
    /\ call = "karl.get_transformed_points" =>
           ret = Returned([k \in 1..Len(args.keypoints) |->
                              Projected(args.H_matrix, args.keypoints[k])])
    /\ call = "utils.get_transformed_points" =>
           ret = Returned([k \in 1..Len(args.keypoints) |->
                              Direct(args.H_matrix, args.keypoints[k])])

(***************************************************************************)
(* C5: with the identity matrix both variants of get_transformed_points    *)
(* return a cloud equal to the input point for point, and the call leaves  *)
(* the input cloud as it was.                                              *)
(***************************************************************************)
AsFloats(cloud) ==
    [k \in 1..Len(cloud) |-> <<Float(cloud[k][1]), Float(cloud[k][2]), Float(cloud[k][3])>>]

C5_IdentityIsNeutral ==
    [][(/\ call' \in {"karl.get_transformed_points", "utils.get_transformed_points"}
        /\ args.H_matrix = Identity4)
           => /\ ret' = Returned(AsFloats(args.keypoints))
              /\ args' = args]_vars

\* the identity applied to a cloud of two different points, x # y in one
C5_Witness ==
    /\ call \in {"karl.get_transformed_points", "utils.get_transformed_points"}
    /\ args.H_matrix = Identity4
    /\ Len(args.keypoints) = 2
    /\ args.keypoints[1] # args.keypoints[2]
    /\ args.keypoints[1][1] # args.keypoints[1][2]
    /\ ret = Returned(AsFloats(args.keypoints))

(***************************************************************************)
(* The script of karl-homo-toy-cars.py from line 213 on.                   *)
(*                                                                         *)
(* What the script gets from code that is not in the repository's files is *)
(* chosen from small sets: the depth maps of the estimator (predict), here *)
(* images of one row and three columns, the keypoints of the detector      *)
(* (sift.detectAndCompute) as (row, col) pixels of such an image, in scan  *)
(* order and without repetition, and the index pairs of the                *)
(* descriptor matcher (q8.mathching_skimage), each keypoint matched at     *)
(* most once, in the order of the first image's keypoints.  The 2D         *)
(* homography and the inliers of q9.ransac_loop are computed and not used  *)
(* by the 3D registration.                                                 *)
(***************************************************************************)
DepthMaps == { <<<<5, 7, 5>>>>, <<<<7, 5, 7>>>>, <<<<0, 5, 7>>>> }

Pixels == {0} \X {0, 1, 2}

ScanIndex(px) == px[1] * 3 + px[2]

KpLists ==
    {s \in SeqsUpTo(Pixels, Cardinality(Pixels)) :
         \A j, k \in 1..Len(s) : j < k => ScanIndex(s[j]) < ScanIndex(s[k])}

Matchings(n1, n2) ==
    {s \in SeqsUpTo((0..(n1 - 1)) \X (0..(n2 - 1)), IF n1 < n2 THEN n1 ELSE n2) :
         \A j, k \in 1..Len(s) : j < k => (s[j][1] < s[k][1] /\ s[j][2] # s[k][2])}

(***************************************************************************)
(* homo3d is imported by the script and is not among the source files.     *)
(* homo_rigid_transform_3D(source, target): equal lengths and at least     *)
(* MinPairs pairs are required; the solve then gives a rigid transform as  *)
(* a 4x4 matrix, or fails on a degenerate configuration.  The transform is *)
(* not computed here: any of RigidTransforms may come out.                 *)
(* get_transformed_points(cloud, M): M.(x, y, z, 1) for every point, the   *)
(* first three components divided by the fourth.                           *)
(***************************************************************************)
MinPairs == 3

RigidTransforms == { Translation(<<1, 0, 0>>),
                     Matrix4(QuarterTurnZ, <<0, 1, 0>>, <<0, 0, 0, 1>>) }

homo3d_homo_rigid_transform_3D(source, target) ==
    IF Len(source) # Len(target) THEN {Raised("CorrespondenceMismatch")}
    ELSE IF Len(source) < MinPairs THEN {Raised("InsufficientCorrespondences")}
    ELSE {Returned(M) : M \in RigidTransforms} \cup {Raised("DegenerateTransform")}

homo3d_get_transformed_points(cloud, M) ==
    [k \in 1..Len(cloud) |->
        LET h == MatVec(M, <<cloud[k][1], cloud[k][2], cloud[k][3], 1>>)
        IN  <<Frac(h[1], h[4]), Frac(h[2], h[4]), Frac(h[3], h[4])>>]

(***************************************************************************)
(* Lines 258-260: for m in bf_matches, append kps1_3d[m[0]] and then       *)
(* kps2_3d[m[1]].  An index past the end of a list raises IndexError and   *)
(* leaves the two lists as they were built so far.                         *)
(***************************************************************************)
RECURSIVE MatchLoop(_, _, _, _, _)
MatchLoop(matches, k1, k2, m1, m2) ==
    IF matches = <<>> THEN [m1 |-> m1, m2 |-> m2, raised |-> "none"]
    ELSE LET m == Head(matches) IN
         IF m[1] >= Len(k1) THEN [m1 |-> m1, m2 |-> m2, raised |-> "IndexError"]
         ELSE IF m[2] >= Len(k2)
              THEN [m1 |-> Append(m1, k1[m[1] + 1]), m2 |-> m2, raised |-> "IndexError"]
         ELSE MatchLoop(Tail(matches), k1, k2,
                        Append(m1, k1[m[1] + 1]), Append(m2, k2[m[2] + 1]))

(***************************************************************************)
(* An exception in the body of the pairwise loop: the script has no        *)
(* try/except, so the exception ends the run with its traceback.           *)
(***************************************************************************)
\* (a loop body that caught the exception, noted it and went on)
Swallow(e) ==
    /\ pc' = "pairs"
    /\ error' = e
    /\ h_matrixes' = Append(h_matrixes, Identity4)

Propagate(e) ==
    /\ pc' = "raised"
    /\ error' = e
    /\ UNCHANGED h_matrixes

Init ==
    /\ call = "none" /\ args = <<>> /\ ret = NoReturn
    /\ pc = "voxels"
    /\ i = 0
    /\ outputs \in [1..NFrames -> DepthMaps]
    /\ input_voxels = <<>>
    /\ orginal_points = <<>> /\ keypoints_prime = <<>> /\ bf_matches = <<>>
    /\ kps1_3d = <<>> /\ kps2_3d = <<>> /\ m_kps1_3d = <<>> /\ m_kps2_3d = <<>>
    /\ h_matrixes = <<>> /\ new_3d_pts = <<>> /\ pcds = <<>>
    /\ error = "none"

\* lines 215-220, one iteration
VoxelStep ==
    /\ pc = "voxels"
    /\ Len(input_voxels) < Len(outputs)
    /\ i' = Len(input_voxels)
    /\ input_voxels' = Append(input_voxels, karl_depth_to_voxel(outputs[i' + 1], 1))
    /\ UNCHANGED <<pc, outputs, orginal_points, keypoints_prime, bf_matches, kps1_3d,
                   kps2_3d, m_kps1_3d, m_kps2_3d, h_matrixes, new_3d_pts, pcds, error>>
    /\ UNCHANGED callVars

\* lines 223-226
VoxelsDone ==
    /\ pc = "voxels"
    /\ Len(input_voxels) = Len(outputs)
    /\ pc' = "pairs"
    /\ h_matrixes' = <<>>
    /\ UNCHANGED <<i, outputs, input_voxels, orginal_points, keypoints_prime, bf_matches,
                   kps1_3d, kps2_3d, m_kps1_3d, m_kps2_3d, new_3d_pts, pcds, error>>
    /\ UNCHANGED callVars

\* lines 228-263, one iteration.  The keypoints of image i+1 are detected
\* again as they were in the iteration before.
PairStep ==
    /\ pc = "pairs"
    /\ Len(h_matrixes) < NFrames - 1
    /\ i' = Len(h_matrixes)
    /\ \E kp1 \in KpLists, kp2 \in KpLists :
         /\ i' > 0 => kp1 = keypoints_prime
         /\ orginal_points' = kp1
         /\ keypoints_prime' = kp2
         /\ \E matches \in Matchings(Len(kp1), Len(kp2)) :
              /\ bf_matches' = matches
              /\ kps1_3d' = karl_get_3d_kps(input_voxels[1], kp1)
              /\ kps2_3d' = karl_get_3d_kps(input_voxels[2], kp2)
              /\ LET loop == MatchLoop(matches, kps1_3d', kps2_3d', <<>>, <<>>) IN
                   /\ m_kps1_3d' = loop.m1
                   /\ m_kps2_3d' = loop.m2
                   /\ IF loop.raised # "none"
                      THEN Propagate(loop.raised)
                      ELSE \E Hmatrix \in homo3d_homo_rigid_transform_3D(loop.m2, loop.m1) :
                             IF Hmatrix.raised # "none"
                             THEN Propagate(Hmatrix.raised)
                             ELSE /\ h_matrixes' = Append(h_matrixes, Hmatrix.value)
                                  /\ UNCHANGED <<pc, error>>
    /\ UNCHANGED <<outputs, input_voxels, new_3d_pts, pcds>>
    /\ UNCHANGED callVars

\* line 265, and the iteration i = 0 of the loop of lines 267-269, which appends nothing
PairsDone ==
    /\ pc = "pairs"
    /\ Len(h_matrixes) = NFrames - 1
    /\ pc' = "register"
    /\ new_3d_pts' = <<input_voxels[1]>>
    /\ i' = 0
    /\ UNCHANGED <<outputs, input_voxels, orginal_points, keypoints_prime, bf_matches,
                   kps1_3d, kps2_3d, m_kps1_3d, m_kps2_3d, h_matrixes, pcds, error>>
    /\ UNCHANGED callVars

\* lines 267-269, one iteration with i # 0
RegisterStep ==
    /\ pc = "register"
    /\ Len(new_3d_pts) < Len(input_voxels)
    /\ i' = Len(new_3d_pts)
    /\ new_3d_pts' = Append(new_3d_pts,
                            homo3d_get_transformed_points(input_voxels[i' + 1],
                                                          h_matrixes[i']))
    /\ UNCHANGED <<pc, outputs, input_voxels, orginal_points, keypoints_prime, bf_matches,
                   kps1_3d, kps2_3d, m_kps1_3d, m_kps2_3d, h_matrixes, pcds, error>>
    /\ UNCHANGED callVars

\* line 271
RegisterDone ==
    /\ pc = "register"
    /\ Len(new_3d_pts) = Len(input_voxels)
    /\ pc' = "export"
    /\ pcds' = <<>>
    /\ UNCHANGED <<i, outputs, input_voxels, orginal_points, keypoints_prime, bf_matches,
                   kps1_3d, kps2_3d, m_kps1_3d, m_kps2_3d, h_matrixes, new_3d_pts, error>>
    /\ UNCHANGED callVars

\* lines 272-278, one iteration: the cloud of frame i is written to toycar_i.pcd
ExportStep ==
    /\ pc = "export"
    /\ Len(pcds) < NFrames
    /\ i' = Len(pcds)
    /\ pcds' = Append(pcds, new_3d_pts[i' + 1])
    /\ UNCHANGED <<pc, outputs, input_voxels, orginal_points, keypoints_prime, bf_matches,
                   kps1_3d, kps2_3d, m_kps1_3d, m_kps2_3d, h_matrixes, new_3d_pts, error>>
    /\ UNCHANGED callVars

\* line 280
ExportDone ==
    /\ pc = "export"
    /\ Len(pcds) = NFrames
    /\ pc' = "done"
    /\ UNCHANGED <<i, outputs, input_voxels, orginal_points, keypoints_prime, bf_matches,
                   kps1_3d, kps2_3d, m_kps1_3d, m_kps2_3d, h_matrixes, new_3d_pts, pcds,
                   error>>
    /\ UNCHANGED callVars

Next ==
    \/ VoxelStep
    \/ VoxelsDone
    \/ PairStep
    \/ PairsDone
    \/ RegisterStep
    \/ RegisterDone
    \/ ExportStep
    \/ ExportDone

Spec == Init /\ [][Next]_vars

(***************************************************************************)
(* C6: after the registration loop the emitted cloud of frame 0 is its raw *)
(* cloud, and the emitted cloud of every later frame f is its raw cloud    *)
(* mapped by the composition of the pairwise transforms f -> f-1, ...,     *)
(* 1 -> 0, that is by the product h_matrixes[0] . ... . h_matrixes[f-1].   *)
(***************************************************************************)
MatMul(A, B) ==
    [r \in 1..4 |-> [c \in 1..4 |->
        A[r][1] * B[1][c] + A[r][2] * B[2][c] + A[r][3] * B[3][c] + A[r][4] * B[4][c]]]

RECURSIVE IntoFrame0(_, _)
IntoFrame0(hs, n) == IF n = 0 THEN Identity4 ELSE MatMul(IntoFrame0(hs, n - 1), hs[n])

C6_ComposedIntoFrame0 ==
    pc \in {"export", "done"} =>
        /\ new_3d_pts[1] = input_voxels[1]
        /\ \A f \in 2..NFrames :
               new_3d_pts[f] = [k \in 1..Len(input_voxels[f]) |->
                                   Projected(IntoFrame0(h_matrixes, f - 1), input_voxels[f][k])]

(***************************************************************************)
(* C7: when the pairwise step of pair i raises, the run halts there with   *)
(* the error: no transform exists for pair i or a later pair, no           *)
(* registered cloud has been built or written, and nothing runs after it.  *)
(***************************************************************************)
C7_FirstErrorHalts ==
    error # "none" =>
        /\ pc = "raised"
        /\ Len(h_matrixes) = i
        /\ new_3d_pts = <<>>
        /\ pcds = <<>>
        /\ ~ENABLED Next

\* the second pair fails after the first pair was solved
C7_Witness ==
    /\ pc = "raised"
    /\ error # "none"
    /\ i = 1
    /\ Len(h_matrixes) = 1
    /\ new_3d_pts = <<>>

(***************************************************************************)
(* C8: in iteration i of the pairwise loop the keypoints of image i are    *)
(* resolved against the cloud of frame i and those of image i+1 against    *)
(* the cloud of frame i+1.                                                 *)
(***************************************************************************)
PairIterationRan == (pc = "pairs" /\ h_matrixes # <<>>) \/ pc = "raised"

C8_LookupInOwnFrames ==
    PairIterationRan =>
        /\ kps1_3d = karl_get_3d_kps(input_voxels[i + 1], orginal_points)
        /\ kps2_3d = karl_get_3d_kps(input_voxels[i + 2], keypoints_prime)

(***************************************************************************)
(* C9: the two lists handed to the rigid solver have the length of the     *)
(* match list and keep the pairing: for the k-th match (a, b) the k-th     *)
(* source point is the point of the later frame's cloud at the pixel of    *)
(* its keypoint b, and the k-th target point the point of the earlier      *)
(* frame's cloud at the pixel of its keypoint a.                           *)
(***************************************************************************)
SolverCalled ==
    \/ pc = "pairs" /\ h_matrixes # <<>>
    \/ pc = "raised" /\ error # "IndexError"

\* p is a point of the cloud and lies at the pixel of the keypoint (row, col)
AtPixel(p, cloud, kp) ==
    /\ \E k \in 1..Len(cloud) : cloud[k] = p
    /\ p[1] = kp[2]
    /\ p[2] = kp[1]

C9_PairingPreserved ==
    SolverCalled =>
        /\ Len(m_kps1_3d) = Len(bf_matches)
        /\ Len(m_kps2_3d) = Len(bf_matches)
        /\ \A k \in 1..Len(bf_matches) :
               /\ AtPixel(m_kps2_3d[k], input_voxels[i + 2],
                          keypoints_prime[bf_matches[k][2] + 1])
               /\ AtPixel(m_kps1_3d[k], input_voxels[i + 1],
                          orginal_points[bf_matches[k][1] + 1])

=============================================================================
